---------------------------- MODULE Spec2Model ----------------------------
(***************************************************************************)
(* Model of MedicalStorage (src/app.py): the JSON-backed store of doctors, *)
(* employees and medical certificates, its in-memory dictionary self.data  *)
(* and the data file it rewrites after every mutation.                     *)
(*                                                                         *)
(* Python dictionaries keep insertion order, so a dictionary is a sequence *)
(* of entries [k |-> key, v |-> value].  uuid.uuid4() is modelled as the   *)
(* next value of a counter (an identifier that was never issued before).   *)
(* datetime.now() is a counter too: every call that reads the clock reads  *)
(* a later instant than every call before it.                              *)
(*                                                                         *)
(* Spec calls the operations of the store in any order; SpecUI drives     *)
(* them the way main() and its pages do; SpecSession starts a browser      *)
(* session at the password gate; SpecImport imports one complete report    *)
(* twice; SpecBulk runs the employee and doctor bulk imports; and          *)
(* SpecClassifier applies normalize and classify of the code classifier.   *)
(***************************************************************************)
EXTENDS Integers, Sequences, FiniteSets, TLC

VARIABLES
    data,       \* self.data, the in-memory snapshot
    file,       \* content of self.data_file: a snapshot, or what else it holds
    backups,    \* backup files written by create_backup, by timestamp
    now,        \* the last instant datetime.datetime.now() returned
    uuids,      \* number of uuid4() values issued so far
    call,       \* the last store operation called, with its arguments
    ret,        \* what that call returned (or the exception it raised)
    pre,        \* self.data when that call started
    pre_file,   \* the data file when that call started
    session,    \* where the run of the Streamlit script stands
    session_state   \* st.session_state: the keys of the password gate

vars == <<data, file, backups, now, uuids, call, ret, pre, pre_file, session,
          session_state>>

-----------------------------------------------------------------------------
(* Bounds of the model *)

MaxClock  == 3      \* calls that read datetime.now() in one run
MaxSessionClock == 5   \* the same in one session of the user interface
MaxRows   == 2      \* rows of an imported sheet
MaxReportRows == 3  \* rows of a report that is imported twice

(* Inputs *)

CRMs          == {"crm1", "CRM1", "crm2"}
Registrations == {"r1", "R1"}
DoctorNames   == {"Ana"}
EmployeeNames == {"Eva"}
Texts         == {""}                \* optional form fields on creation
NameEdits     == {"", "Bia"}         \* the name field of the edit form
Edits         == {""}                \* the other fields of the edit form
Dates         == {"2024-01-01", "2024-01-02"}
DaysOff       == {1}
Diagnoses     == {""}
Roles         == {"Nurse"}
Today         == "2024-01-03"           \* datetime.date.today().isoformat()
ImportNames   == {"Eva Lima"}           \* column 0 of a sheet, longer than 3
Matriculas    == {"", "7"}              \* column 1: empty, or digits
Medicos       == {"", "CRM1"}           \* column 2: empty, or a text with a CRM
SheetRows     == [nome_func : ImportNames, matricula : Matriculas, medico : Medicos]
Sheets        == UNION {[1..n -> SheetRows] : n \in 0..MaxRows}

\* rows of a report: an employee with a doctor, a registration whose name
\* cell is blank, a doctor alone, a registration that is not a number
ReportRows ==
    {[nome_func |-> "Eva Lima", matricula |-> "7", medico |-> "CRM1"],
     [nome_func |-> "", matricula |-> "8", medico |-> ""],
     [nome_func |-> "", matricula |-> "", medico |-> "CRM1"],
     [nome_func |-> "Eva Lima", matricula |-> "r1", medico |-> "CRM1"]}
Reports == UNION {[1..n -> ReportRows] : n \in 0..MaxReportRows}

\* rows of the bulk imports, after str(...).strip(): a cell of blanks is ""
EmployeeRows == [matricula : Registrations \cup {""}, nome : EmployeeNames \cup {""}]
DoctorRows == [crm : CRMs \cup {""}, nome : DoctorNames \cup {""}]
EmployeeSheets == UNION {[1..n -> EmployeeRows] : n \in 0..MaxRows}
DoctorSheets == UNION {[1..n -> DoctorRows] : n \in 0..MaxRows}
Limits        == {0, 1, 10}          \* limit of the top lists (10 by default)

None       == "None"                 \* Python's None
Absent     == "<absent>"             \* a key that is not in st.session_state
Passwords  == {"admin", "rh2025", "wrong"}   \* texts typed at the gate
LoggedIn   == [password_correct |-> "True", password |-> Absent]

\* The characters of a diagnosis code: a lower-case and an upper-case letter,
\* a digit, the dot and a blank
Chars == {"f", "F", "3", ".", " "}
MaxCodeLen == 5
RawCodes == UNION {[1..n -> Chars] : n \in 0..MaxCodeLen}

\* Entries a risk table can hold: a category, a code below it and another
\* category.  The contents of the table are configuration; what matters is
\* the order of the entries.
TableEntries ==
    {[code |-> <<"F", "3">>, description |-> "category"],
     [code |-> <<"F", "3", ".", "3">>, description |-> "subcategory"],
     [code |-> <<"3">>, description |-> "other"]}
MaxTableLen == 2
Tables == UNION {[1..n -> TableEntries] : n \in 0..MaxTableLen}

\* json.load keeping the null of a doctor who has no attendance yet
json_load_keeping_null(j) == j

\* json.dump(self.data, f): strings and integers are written as they are,
\* dictionaries in the order of their keys, None as null
json_dump(d) ==
    [d EXCEPT !.doctors =
        [i \in DOMAIN @ |->
            [@[i] EXCEPT !.v.last_attendance = IF @ = None THEN "null" ELSE @]]]

\* json.load(f): the inverse, null becomes None
json_load(j) ==
    [j EXCEPT !.doctors =
        [i \in DOMAIN @ |->
            [@[i] EXCEPT !.v.last_attendance = IF @ = "null" THEN None ELSE @]]]

\* The data file: valid JSON holding a snapshot, a truncated file (text that
\* does not parse), bytes that are not UTF-8 text, or no file
Stored(d)   == [exists |-> TRUE, utf8 |-> TRUE, valid |-> TRUE, json |-> json_dump(d)]
Corrupt     == [exists |-> TRUE, utf8 |-> TRUE, valid |-> FALSE, json |-> <<>>]
Undecodable == [exists |-> TRUE, utf8 |-> FALSE, valid |-> FALSE, json |-> <<>>]
Missing     == [exists |-> FALSE, utf8 |-> FALSE, valid |-> FALSE, json |-> <<>>]
SameFile(f, g) ==
    /\ f.exists = g.exists
    /\ f.utf8 = g.utf8
    /\ f.valid = g.valid
    /\ f.valid => f.json = g.json

\* What a call gives back: a value, or an exception
Returned(v) == [status |-> "returned", value |-> v]
Raised(exc) == [status |-> "raised", value |-> exc]

-----------------------------------------------------------------------------
(* Python dictionary operations on insertion-ordered dictionaries *)

Keys(d) == {d[i].k : i \in DOMAIN d}

Has(d, key) == key \in Keys(d)

Get(d, key) == d[CHOOSE i \in DOMAIN d : d[i].k = key].v

\* d[key] = value: replaces in place, or appends a new key at the end
Put(d, key, value) ==
    IF Has(d, key)
    THEN [i \in DOMAIN d |-> IF d[i].k = key THEN [k |-> key, v |-> value] ELSE d[i]]
    ELSE Append(d, [k |-> key, v |-> value])

\* del d[key]
Del(d, key) == SelectSeq(d, LAMBDA e : e.k # key)

\* str.lower() on the registration numbers of the model
Lower(s) == CASE s = "CRM1" -> "crm1"
              [] s = "CRM2" -> "crm2"
              [] s = "R1"   -> "r1"
              [] OTHER      -> s

\* str.upper() on the CRMs of the model
Upper(s) == CASE s = "crm1" -> "CRM1"
              [] s = "crm2" -> "CRM2"
              [] OTHER      -> s

\* the first index of a sequence that satisfies a test (a for loop that returns)
First(S) == CHOOSE i \in S : \A j \in S : i <= j

EmptyData(t) ==
    [doctors |-> <<>>, employees |-> <<>>, certificates |-> <<>>, last_update |-> t]

-----------------------------------------------------------------------------
(* The operations of MedicalStorage, as functions of self.data.  Each      *)
(* returns the dictionary after the in-memory part of the call, the value  *)
(* returned, whether uuid4() was called and whether save_data() is called  *)
(* (a call reads the clock exactly when it calls save_data()).             *)

Result(d, r, usesUuid, saves) ==
    [data |-> d, ret |-> r, uuid |-> usesUuid, save |-> saves, raises |-> None]

\* An operation that an exception leaves before it returns or saves
Raising(d, exc) ==
    [data |-> d, ret |-> <<>>, uuid |-> FALSE, save |-> FALSE, raises |-> exc]

\* add_doctor comparing the registration numbers case-sensitively
add_doctor_case_sensitive(d, crm, name, specialty, phone, email, uid, t) ==
    LET hits == {i \in DOMAIN d.doctors : d.doctors[i].v.crm = crm}
        doctor == [crm |-> crm, name |-> name, specialty |-> specialty,
                   phone |-> phone, email |-> email,
                   total_attendances |-> 0, total_certificates |-> 0,
                   created_at |-> t, last_attendance |-> None]
    IN  IF hits # {}
        THEN Result(d, d.doctors[First(hits)].k, FALSE, FALSE)
        ELSE Result([d EXCEPT !.doctors = Put(@, uid, doctor)], uid, TRUE, TRUE)

\* def add_doctor(self, crm, name, specialty="", phone="", email="")
add_doctor(d, crm, name, specialty, phone, email, uid, t) ==
    LET hits == {i \in DOMAIN d.doctors : Lower(d.doctors[i].v.crm) = Lower(crm)}
        doctor == [crm |-> crm, name |-> name, specialty |-> specialty,
                   phone |-> phone, email |-> email,
                   total_attendances |-> 0, total_certificates |-> 0,
                   created_at |-> t, last_attendance |-> None]
    IN  IF hits # {}
        THEN Result(d, d.doctors[First(hits)].k, FALSE, FALSE)
        ELSE Result([d EXCEPT !.doctors = Put(@, uid, doctor)], uid, TRUE, TRUE)

\* update_doctor assigning every keyword, the empty ones too
update_doctor_assigning_empty(d, doctor_id, kwargs) ==
    IF Has(d.doctors, doctor_id)
    THEN LET old == Get(d.doctors, doctor_id)
             new == [key \in DOMAIN old \cup DOMAIN kwargs |->
                        IF key \in DOMAIN kwargs THEN kwargs[key] ELSE old[key]]
         IN  Result([d EXCEPT !.doctors = Put(@, doctor_id, new)], TRUE, FALSE, TRUE)
    ELSE Result(d, FALSE, FALSE, FALSE)

\* update_doctor reaching save_data also when the doctor is not stored
update_doctor_saving_always(d, doctor_id, kwargs) ==
    IF Has(d.doctors, doctor_id)
    THEN LET old == Get(d.doctors, doctor_id)
             set == {key \in DOMAIN kwargs : kwargs[key] # ""}
             new == [key \in DOMAIN old \cup set |->
                        IF key \in set THEN kwargs[key] ELSE old[key]]
         IN  Result([d EXCEPT !.doctors = Put(@, doctor_id, new)], TRUE, FALSE, TRUE)
    ELSE Result(d, FALSE, FALSE, TRUE)

\* def update_doctor(self, doctor_id, **kwargs): kwargs is a function from
\* field names to values; a falsy (empty) value is skipped
update_doctor(d, doctor_id, kwargs) ==
    IF Has(d.doctors, doctor_id)
    THEN LET old == Get(d.doctors, doctor_id)
             set == {key \in DOMAIN kwargs : kwargs[key] # ""}
             new == [key \in DOMAIN old \cup set |->
                        IF key \in set THEN kwargs[key] ELSE old[key]]
         IN  Result([d EXCEPT !.doctors = Put(@, doctor_id, new)], TRUE, FALSE, TRUE)
    ELSE Result(d, FALSE, FALSE, FALSE)

\* delete_doctor without the check for certificates of the doctor
delete_doctor_unchecked(d, doctor_id) ==
    IF Has(d.doctors, doctor_id)
    THEN Result([d EXCEPT !.doctors = Del(@, doctor_id)],
                <<TRUE, "excluido">>, FALSE, TRUE)
    ELSE Result(d, <<FALSE, "nao encontrado">>, FALSE, FALSE)

\* delete_doctor removing the doctor's certificates with the doctor
delete_doctor_cascade(d, doctor_id) ==
    IF Has(d.doctors, doctor_id)
    THEN Result([d EXCEPT !.doctors = Del(@, doctor_id),
                          !.certificates =
                              SelectSeq(@, LAMBDA e : e.v.doctor_id # doctor_id)],
                <<TRUE, "excluido">>, FALSE, TRUE)
    ELSE Result(d, <<FALSE, "nao encontrado">>, FALSE, FALSE)

\* def delete_doctor(self, doctor_id)
delete_doctor(d, doctor_id) ==
    IF Has(d.doctors, doctor_id)
    THEN LET doctor_certificates ==
                 Cardinality({i \in DOMAIN d.certificates :
                                 d.certificates[i].v.doctor_id = doctor_id})
         IN  IF doctor_certificates > 0
             THEN Result(d, <<FALSE, "possui atendimentos">>, FALSE, FALSE)
             ELSE Result([d EXCEPT !.doctors = Del(@, doctor_id)],
                         <<TRUE, "excluido">>, FALSE, TRUE)
    ELSE Result(d, <<FALSE, "nao encontrado">>, FALSE, FALSE)

\* add_employee comparing the registrations as add_doctor compares the crm
add_employee_case_insensitive(d, registration, name, department, uid, t) ==
    LET hits == {i \in DOMAIN d.employees :
                    Lower(d.employees[i].v.registration) = Lower(registration)}
        employee == [registration |-> registration, name |-> name,
                     department |-> department,
                     total_attendances |-> 0, total_certificates |-> 0,
                     created_at |-> t]
    IN  IF hits # {}
        THEN Result(d, d.employees[First(hits)].k, FALSE, FALSE)
        ELSE Result([d EXCEPT !.employees = Put(@, uid, employee)], uid, TRUE, TRUE)

\* def add_employee(self, registration, name, department="")
add_employee(d, registration, name, department, uid, t) ==
    LET hits == {i \in DOMAIN d.employees :
                    d.employees[i].v.registration = registration}
        employee == [registration |-> registration, name |-> name,
                     department |-> department,
                     total_attendances |-> 0, total_certificates |-> 0,
                     created_at |-> t]
    IN  IF hits # {}
        THEN Result(d, d.employees[First(hits)].k, FALSE, FALSE)
        ELSE Result([d EXCEPT !.employees = Put(@, uid, employee)], uid, TRUE, TRUE)

\* add_certificate that counts the attendance of the doctor but not the
\* certificate
add_certificate_uncounted(d, doctor_id, employee_id, certificate_date, days_off, diagnosis, uid, t) ==
    LET certificate == [doctor_id |-> doctor_id, employee_id |-> employee_id,
                        certificate_date |-> certificate_date,
                        days_off |-> days_off, diagnosis |-> diagnosis,
                        created_at |-> t]
        d1 == [d EXCEPT !.certificates = Put(@, uid, certificate)]
        d2 == IF Has(d1.doctors, doctor_id)
              THEN LET doc == Get(d1.doctors, doctor_id)
                   IN  [d1 EXCEPT !.doctors = Put(@, doctor_id,
                          [doc EXCEPT !.total_attendances = @ + 1,
                                      !.last_attendance = certificate_date])]
              ELSE d1
        d3 == IF Has(d2.employees, employee_id)
              THEN LET emp == Get(d2.employees, employee_id)
                   IN  [d2 EXCEPT !.employees = Put(@, employee_id,
                          [emp EXCEPT !.total_attendances = @ + 1,
                                      !.total_certificates = @ + 1])]
              ELSE d2
    IN  Result(d3, uid, TRUE, TRUE)

\* add_certificate that does not record the date of the doctor's last attendance
add_certificate_no_last_attendance(d, doctor_id, employee_id, certificate_date, days_off, diagnosis, uid, t) ==
    LET certificate == [doctor_id |-> doctor_id, employee_id |-> employee_id,
                        certificate_date |-> certificate_date,
                        days_off |-> days_off, diagnosis |-> diagnosis,
                        created_at |-> t]
        d1 == [d EXCEPT !.certificates = Put(@, uid, certificate)]
        d2 == IF Has(d1.doctors, doctor_id)
              THEN LET doc == Get(d1.doctors, doctor_id)
                   IN  [d1 EXCEPT !.doctors = Put(@, doctor_id,
                          [doc EXCEPT !.total_attendances = @ + 1,
                                      !.total_certificates = @ + 1])]
              ELSE d1
        d3 == IF Has(d2.employees, employee_id)
              THEN LET emp == Get(d2.employees, employee_id)
                   IN  [d2 EXCEPT !.employees = Put(@, employee_id,
                          [emp EXCEPT !.total_attendances = @ + 1,
                                      !.total_certificates = @ + 1])]
              ELSE d2
    IN  Result(d3, uid, TRUE, TRUE)

\* add_certificate counting only when the doctor and the employee are both
\* stored
add_certificate_counting_pairs(d, doctor_id, employee_id, certificate_date, days_off, diagnosis, uid, t) ==
    LET certificate == [doctor_id |-> doctor_id, employee_id |-> employee_id,
                        certificate_date |-> certificate_date,
                        days_off |-> days_off, diagnosis |-> diagnosis,
                        created_at |-> t]
        both == Has(d.doctors, doctor_id) /\ Has(d.employees, employee_id)
        d1 == [d EXCEPT !.certificates = Put(@, uid, certificate)]
        d2 == IF both
              THEN LET doc == Get(d1.doctors, doctor_id)
                   IN  [d1 EXCEPT !.doctors = Put(@, doctor_id,
                          [doc EXCEPT !.total_attendances = @ + 1,
                                      !.total_certificates = @ + 1,
                                      !.last_attendance = certificate_date])]
              ELSE d1
        d3 == IF both
              THEN LET emp == Get(d2.employees, employee_id)
                   IN  [d2 EXCEPT !.employees = Put(@, employee_id,
                          [emp EXCEPT !.total_attendances = @ + 1,
                                      !.total_certificates = @ + 1])]
              ELSE d2
    IN  Result(d3, uid, TRUE, TRUE)

\* def add_certificate(self, doctor_id, employee_id, certificate_date,
\*                     days_off=0, diagnosis="")
add_certificate(d, doctor_id, employee_id, certificate_date, days_off, diagnosis, uid, t) ==
    LET certificate == [doctor_id |-> doctor_id, employee_id |-> employee_id,
                        certificate_date |-> certificate_date,
                        days_off |-> days_off, diagnosis |-> diagnosis,
                        created_at |-> t]
        d1 == [d EXCEPT !.certificates = Put(@, uid, certificate)]
        d2 == IF Has(d1.doctors, doctor_id)
              THEN LET doc == Get(d1.doctors, doctor_id)
                   IN  [d1 EXCEPT !.doctors = Put(@, doctor_id,
                          [doc EXCEPT !.total_attendances = @ + 1,
                                      !.total_certificates = @ + 1,
                                      !.last_attendance = certificate_date])]
              ELSE d1
        d3 == IF Has(d2.employees, employee_id)
              THEN LET emp == Get(d2.employees, employee_id)
                   IN  [d2 EXCEPT !.employees = Put(@, employee_id,
                          [emp EXCEPT !.total_attendances = @ + 1,
                                      !.total_certificates = @ + 1])]
              ELSE d2
    IN  Result(d3, uid, TRUE, TRUE)

\* list[:limit] for limit >= 0
Slice(list, limit) == SubSeq(list, 1, IF limit < Len(list) THEN limit ELSE Len(list))

\* sorted(list, key=lambda x: x["total_certificates"], reverse=True): a stable
\* sort, so each element goes behind the elements that are not smaller
InsertDescending(list, x) ==
    LET n == Cardinality({i \in DOMAIN list :
                             list[i].total_certificates >= x.total_certificates})
    IN  SubSeq(list, 1, n) \o <<x>> \o SubSeq(list, n + 1, Len(list))

RECURSIVE sorted_descending(_)
sorted_descending(list) ==
    IF list = <<>>
    THEN <<>>
    ELSE InsertDescending(sorted_descending(SubSeq(list, 1, Len(list) - 1)),
                          list[Len(list)])

\* an ascending stable sort read backwards: equal elements change places
InsertAscending(list, x) ==
    LET n == Cardinality({i \in DOMAIN list :
                             list[i].total_certificates <= x.total_certificates})
    IN  SubSeq(list, 1, n) \o <<x>> \o SubSeq(list, n + 1, Len(list))

RECURSIVE sorted_ascending(_)
sorted_ascending(list) ==
    IF list = <<>>
    THEN <<>>
    ELSE InsertAscending(sorted_ascending(SubSeq(list, 1, Len(list) - 1)),
                         list[Len(list)])

Reversed(list) == [i \in DOMAIN list |-> list[Len(list) + 1 - i]]

\* the entry of doctors_list for one doctor
DoctorRow(e) ==
    [doctor_id |-> e.k, crm |-> e.v.crm, name |-> e.v.name,
     specialty |-> e.v.specialty,
     total_certificates |-> e.v.total_certificates,
     total_attendances |-> e.v.total_attendances,
     last_attendance |-> e.v.last_attendance]

\* the entry of employees_list for one employee
EmployeeRow(e) ==
    [employee_id |-> e.k, registration |-> e.v.registration, name |-> e.v.name,
     department |-> e.v.department,
     total_certificates |-> e.v.total_certificates,
     total_attendances |-> e.v.total_attendances]

\* get_top_doctors_certificates sorting upwards and reversing the result
get_top_doctors_certificates_reversed(d, limit) ==
    LET doctors_list == [i \in DOMAIN d.doctors |-> DoctorRow(d.doctors[i])]
    IN  Slice(Reversed(sorted_ascending(doctors_list)), limit)

\* def get_top_doctors_certificates(self, limit=10)
get_top_doctors_certificates(d, limit) ==
    LET doctors_list == [i \in DOMAIN d.doctors |-> DoctorRow(d.doctors[i])]
    IN  Slice(sorted_descending(doctors_list), limit)

\* get_top_employees_certificates without the [:limit]
get_top_employees_certificates_unlimited(d, limit) ==
    LET employees_list == [i \in DOMAIN d.employees |-> EmployeeRow(d.employees[i])]
    IN  sorted_descending(employees_list)

\* def get_top_employees_certificates(self, limit=10)
get_top_employees_certificates(d, limit) ==
    LET employees_list == [i \in DOMAIN d.employees |-> EmployeeRow(d.employees[i])]
    IN  Slice(sorted_descending(employees_list), limit)

\* sum(doctor["total_attendances"] for doctor in doctors.values())
RECURSIVE SumAttendances(_)
SumAttendances(list) ==
    IF list = <<>>
    THEN 0
    ELSE list[1].v.total_attendances + SumAttendances(Tail(list))

\* a / b as the fraction it is
Quotient(a, b) == [num |-> a, den |-> b]
Zero == [num |-> 0, den |-> 1]

\* the sum of total_attendances over doctors and employees
RECURSIVE SumAllAttendances(_, _)
SumAllAttendances(doctors, employees) ==
    IF doctors # <<>>
    THEN doctors[1].v.total_attendances + SumAllAttendances(Tail(doctors), employees)
    ELSE IF employees # <<>>
    THEN employees[1].v.total_attendances + SumAllAttendances(doctors, Tail(employees))
    ELSE 0

\* get_statistics adding the attendances of the employees to those of the
\* doctors
get_statistics_counting_employees(d) ==
    LET total_doctors == Len(d.doctors)
        total_employees == Len(d.employees)
        total_certificates == Len(d.certificates)
    IN  Returned(
          [total_doctors |-> total_doctors,
           total_employees |-> total_employees,
           total_certificates |-> total_certificates,
           total_attendances |-> SumAllAttendances(d.doctors, d.employees),
           certificates_per_doctor |->
               IF total_doctors > 0
               THEN Quotient(total_certificates, total_doctors) ELSE Zero,
           certificates_per_employee |->
               IF total_employees > 0
               THEN Quotient(total_certificates, total_employees) ELSE Zero])

\* get_statistics dividing without the test of the divisor
get_statistics_unguarded(d) ==
    LET total_doctors == Len(d.doctors)
        total_employees == Len(d.employees)
        total_certificates == Len(d.certificates)
    IN  IF total_doctors = 0 \/ total_employees = 0
        THEN Raised("ZeroDivisionError")
        ELSE Returned(
               [total_doctors |-> total_doctors,
                total_employees |-> total_employees,
                total_certificates |-> total_certificates,
                total_attendances |-> SumAttendances(d.doctors),
                certificates_per_doctor |-> Quotient(total_certificates, total_doctors),
                certificates_per_employee |->
                    Quotient(total_certificates, total_employees)])

\* def get_statistics(self)
get_statistics(d) ==
    LET total_doctors == Len(d.doctors)
        total_employees == Len(d.employees)
        total_certificates == Len(d.certificates)
    IN  Returned(
          [total_doctors |-> total_doctors,
           total_employees |-> total_employees,
           total_certificates |-> total_certificates,
           total_attendances |-> SumAttendances(d.doctors),
           certificates_per_doctor |->
               IF total_doctors > 0
               THEN Quotient(total_certificates, total_doctors) ELSE Zero,
           certificates_per_employee |->
               IF total_employees > 0
               THEN Quotient(total_certificates, total_employees) ELSE Zero])

-----------------------------------------------------------------------------
(* The code classifier.  A diagnosis code is a sequence of characters.      *)

\* str.upper() on one character of Chars
UpperChar(ch) == CASE ch = "f" -> "F" [] OTHER -> ch

upper(s) == [i \in DOMAIN s |-> UpperChar(s[i])]

IsSpace(ch) == ch = " "

RECURSIVE lstrip(_)
lstrip(s) == IF s # <<>> /\ IsSpace(Head(s)) THEN lstrip(Tail(s)) ELSE s

RECURSIVE rstrip(_)
rstrip(s) ==
    IF s # <<>> /\ IsSpace(s[Len(s)]) THEN rstrip(SubSeq(s, 1, Len(s) - 1)) ELSE s

\* strip surrounding whitespace
strip(s) == rstrip(lstrip(s))

IsNoDot(ch) == ch # "."

\* remove all literal dot characters
remove_dots(s) == SelectSeq(s, IsNoDot)

\* normalize putting the dot back from three characters on, not from four
normalize_dot_after_three(raw) ==
    IF raw = <<>>
    THEN <<>>
    ELSE LET run == remove_dots(strip(upper(raw)))
         IN  IF Len(run) >= 3
             THEN SubSeq(run, 1, 3) \o <<".">> \o SubSeq(run, 4, Len(run))
             ELSE run

\* normalize(raw): upper-case, strip, remove the dots, and put one dot back
\* behind the third character of a run of more than three
normalize(raw) ==
    IF raw = <<>>
    THEN <<>>
    ELSE LET run == remove_dots(strip(upper(raw)))
         IN  IF Len(run) > 3
             THEN SubSeq(run, 1, 3) \o <<".">> \o SubSeq(run, 4, Len(run))
             ELSE run

\* prefix is a string prefix of s
startswith(s, prefix) ==
    /\ Len(prefix) <= Len(s)
    /\ SubSeq(s, 1, Len(prefix)) = prefix

NoRisk == [risk |-> FALSE, description |-> ""]

\* the scan of the table in which a later entry that matches replaces an
\* earlier one
RECURSIVE scan_last_match(_, _, _)
scan_last_match(code, table, found) ==
    IF table = <<>>
    THEN found
    ELSE scan_last_match(code, Tail(table),
             IF startswith(code, remove_dots(Head(table).code))
             THEN [risk |-> TRUE, description |-> Head(table).description]
             ELSE found)

\* the scan of the table from its first entry: the first match returns
RECURSIVE scan(_, _)
scan(code, table) ==
    IF table = <<>>
    THEN NoRisk
    ELSE IF startswith(code, remove_dots(Head(table).code))
         THEN [risk |-> TRUE, description |-> Head(table).description]
         ELSE scan(code, Tail(table))

\* classify in which the last matching entry of the table wins
classify_last_match(normalized, table) ==
    IF normalized = <<>>
    THEN NoRisk
    ELSE scan_last_match(remove_dots(normalized), table, NoRisk)

\* classify(normalized) over the table of (code prefix, description) pairs
classify(normalized, table) ==
    IF normalized = <<>>
    THEN NoRisk
    ELSE scan(remove_dots(normalized), table)

-----------------------------------------------------------------------------
\* create_backup setting last_update in what it writes, as save_data does
create_backup_stamped(d, files, t) ==
    [backups |-> Append(files, [name |-> t,
                                json |-> json_dump([d EXCEPT !.last_update = t])]),
     ret |-> t]

\* def create_backup(self): writes self.data to a new file named after the
\* time and returns the name; files are the backup files there are
create_backup(d, files, t) ==
    [backups |-> Append(files, [name |-> t, json |-> json_dump(d)]), ret |-> t]

\* def save_data(self): the timestamp is set first; open(..., 'w') either
\* fails and leaves the file alone, or truncates it; json.dump then writes
\* the whole snapshot or fails part-way and leaves a truncated file.
\* Returns self.data, the file and whether an OSError was raised.
\* (the texts of the model are ASCII, so that a write cut short leaves text)
save_data(d, f, t, outcome) ==
    LET d1 == [d EXCEPT !.last_update = t]
    IN  CASE outcome = "ok"           -> [data |-> d1, file |-> Stored(d1), raised |-> FALSE]
          [] outcome = "open_failed"  -> [data |-> d1, file |-> f, raised |-> TRUE]
          [] outcome = "write_failed" -> [data |-> d1, file |-> Corrupt, raised |-> TRUE]

WriteOutcomes == {"ok", "open_failed", "write_failed"}

\* hashlib.sha256(p.encode()).hexdigest() of the passwords of the model
sha256(p) ==
    CASE p = "admin"  -> "8c6976e5b5410415bde908bd4dee15dfb167a9c873fc4bb8a81f6f2ab448a918"
      [] p = "rh2025" -> "d3cdbaa6c5cbb1e4f64fec97a5893749b456b29b2ceda7e4e0c87a46936f8f8c"
      [] OTHER        -> "8810ad581e59f2bc3928b261707a71308f7e139eb04820366dc4d5c18d980225"

correct_password_hash ==
    "8c6976e5b5410415bde908bd4dee15dfb167a9c873fc4bb8a81f6f2ab448a918"

\* password_entered(): the callback of the password field, on the session
\* state that holds the text entered under the key "password"
password_entered(ss) ==
    IF sha256(ss.password) = correct_password_hash
    THEN [password_correct |-> "True", password |-> Absent]
    ELSE [ss EXCEPT !.password_correct = "False"]

\* check_password letting in whoever has entered a password, right or wrong
check_password_any_entry(ss) ==
    IF ss.password_correct = Absent
    THEN FALSE
    ELSE TRUE

\* check_password(): what it returns; it shows the gate when it returns False
check_password(ss) ==
    IF ss.password_correct = Absent
    THEN FALSE
    ELSE IF ss.password_correct # "True"
    THEN FALSE
    ELSE TRUE

\* def load_data(self): json.load of the data file opened as UTF-8 text;
\* FileNotFoundError and JSONDecodeError start an empty store, which is
\* saved; the UnicodeDecodeError of bytes that are not UTF-8 is not caught
\* and leaves self.data, here d, as it was
load_data(d, f, t) ==
    IF f.valid
    THEN Result(json_load(f.json), <<>>, FALSE, FALSE)
    ELSE IF f.exists /\ ~f.utf8
    THEN Raising(d, "UnicodeDecodeError")
    ELSE Result(EmptyData(t), <<>>, FALSE, TRUE)

\* The run of the script: page is "loaded" when main() has constructed the
\* store, "import" while the rows of a sheet are processed, "done" when the
\* page has run; the other fields are the local variables of the import
\* stats = {...}: the counters the complete-report import reports
NoStats ==
    [funcionarios_novos |-> 0, funcionarios_duplicados |-> 0,
     medicos_novos |-> 0, medicos_duplicados |-> 0,
     atendimentos_registrados |-> 0, erros |-> 0]

\* the report a user uploads twice: its rows, how many of its imports have
\* started, and the parties the store held when its first import ended
NoReport == [sheet |-> <<>>, imports |-> 0, doctors |-> {}, employees |-> {}]

\* The locals of a run. last_valid is the registration of the most recent
\* row of the report that had a numeric one, before the number of records
\* the store held when the import started, total is len(df).
Session(page) ==
    [page |-> page, rows |-> <<>>, pc |-> "",
     funcionarios_cache |-> <<>>, medicos_cache |-> <<>>,
     current_employee_id |-> 0, doctor_id |-> 0,
     stats |-> NoStats, last_valid |-> "", before |-> 0, total |-> 0,
     imported |-> 0, duplicated |-> 0, errors |-> 0,
     report |-> NoReport]

\* the run is at the page; the uploaded report stays with the user
Page(s, page) == [Session(page) EXCEPT !.report = s.report]

\* matricula.isdigit(), on the registrations of the model
isdigit(matricula) == matricula \in {"7", "8"}

\* the crm and the registration of every stored party, with its key
Parties(collection, field) ==
    {<<collection[i].k, collection[i].v[field]>> : i \in DOMAIN collection}

\* for emp_id, emp_data in ...items(): funcionarios_cache[str(registration)] = emp_id
RECURSIVE load_funcionarios(_, _)
load_funcionarios(employees, cache) ==
    IF employees = <<>>
    THEN cache
    ELSE load_funcionarios(Tail(employees),
             Put(cache, Head(employees).v.registration, Head(employees).k))

\* for doc_id, doc_data in ...items(): medicos_cache[crm.upper()] = doc_id
RECURSIVE load_medicos(_, _)
load_medicos(doctors, cache) ==
    IF doctors = <<>>
    THEN cache
    ELSE load_medicos(Tail(doctors),
             Put(cache, Upper(Head(doctors).v.crm), Head(doctors).k))

\* the import passing the employee where the doctor belongs
import_certificate_swapped(d, doctor_id, current_employee_id, uid, t) ==
    add_certificate(d, current_employee_id, doctor_id, Today, 1, "", uid, t)

\* storage.add_certificate(doctor_id, current_employee_id, cert_date, 1, ...)
import_certificate(d, doctor_id, current_employee_id, uid, t) ==
    add_certificate(d, doctor_id, current_employee_id, Today, 1, "", uid, t)

-----------------------------------------------------------------------------
(* The state machine: one action per public operation *)

Init ==
    /\ data = EmptyData(0)
    /\ file = Stored(EmptyData(0))
    /\ backups = <<>>
    /\ now = 0
    /\ uuids = 0
    /\ call = [op |-> "__init__", args |-> <<>>]
    /\ ret = Returned(<<>>)
    /\ pre = EmptyData(0)
    /\ pre_file = Stored(EmptyData(0))
    /\ session = Session("loaded")
    /\ session_state = LoggedIn

\* identifiers a caller can pass: a key of the collection, or an identifier
\* that is no key of it (0 stands for all of these: uuid4() never repeats,
\* so an identifier that is no key now never becomes one)
DoctorIdArgs == Keys(data.doctors) \cup {0}
EmployeeIdArgs == Keys(data.employees) \cup {0}

\* The call c with in-memory result r, followed by its save_data() if any;
\* bound limits the instants the clock is read at
Call(c, r, bound) ==
    /\ r.save => now < bound
    /\ \E outcome \in WriteOutcomes :
          /\ (~r.save) => outcome = "ok"
          /\ LET s == IF r.save THEN save_data(r.data, file, now + 1, outcome)
                               ELSE [data |-> r.data, file |-> file, raised |-> FALSE]
             IN  /\ data' = s.data
                 /\ file' = s.file
                 /\ ret' = IF r.raises # None THEN Raised(r.raises)
                           ELSE IF s.raised THEN Raised("OSError")
                           ELSE Returned(r.ret)
    /\ now' = IF r.save THEN now + 1 ELSE now
    /\ uuids' = IF r.uuid THEN uuids + 1 ELSE uuids
    /\ call' = c
    /\ pre' = data
    /\ pre_file' = file
    /\ UNCHANGED <<backups, session_state>>

\* A call on the store object itself
Finish(c, r) == Call(c, r, MaxClock) /\ UNCHANGED session

AddDoctor ==
    \E crm \in CRMs, name \in DoctorNames, specialty \in Texts,
       phone \in Texts, email \in Texts :
        Finish([op |-> "add_doctor", args |-> <<crm, name, specialty, phone, email>>],
               add_doctor(data, crm, name, specialty, phone, email, uuids + 1, now + 1))

UpdateDoctor ==
    \E doctor_id \in DoctorIdArgs, name \in NameEdits, specialty \in Edits,
       phone \in Edits, email \in Edits :
        LET kwargs == [name |-> name, specialty |-> specialty,
                       phone |-> phone, email |-> email]
        IN  Finish([op |-> "update_doctor", args |-> <<doctor_id, kwargs>>],
                   update_doctor(data, doctor_id, kwargs))

DeleteDoctor ==
    \E doctor_id \in DoctorIdArgs :
        Finish([op |-> "delete_doctor", args |-> <<doctor_id>>],
               delete_doctor(data, doctor_id))

AddEmployee ==
    \E registration \in Registrations, name \in EmployeeNames, department \in Texts :
        Finish([op |-> "add_employee", args |-> <<registration, name, department>>],
               add_employee(data, registration, name, department, uuids + 1, now + 1))

\* add_employee(registration, name, department, role=...): the function has
\* no such parameter, so Python raises TypeError before its body runs
AddEmployeeRole ==
    \E registration \in Registrations, name \in EmployeeNames, role \in Roles :
        /\ call' = [op |-> "add_employee", args |-> <<registration, name, "", role>>]
        /\ ret' = Raised("TypeError")
        /\ pre' = data
        /\ pre_file' = file
        /\ UNCHANGED <<data, file, backups, now, uuids, session, session_state>>

AddCertificate ==
    \E doctor_id \in DoctorIdArgs, employee_id \in EmployeeIdArgs,
       certificate_date \in Dates, days_off \in DaysOff, diagnosis \in Diagnoses :
        Finish([op |-> "add_certificate",
                args |-> <<doctor_id, employee_id, certificate_date, days_off, diagnosis>>],
               add_certificate(data, doctor_id, employee_id, certificate_date,
                               days_off, diagnosis, uuids + 1, now + 1))

CreateBackup ==
    /\ now < MaxClock
    /\ LET b == create_backup(data, backups, now + 1)
       IN  /\ backups' = b.backups
           /\ ret' = Returned(b.ret)
    /\ now' = now + 1
    /\ call' = [op |-> "create_backup", args |-> <<>>]
    /\ pre' = data
    /\ pre_file' = file
    /\ UNCHANGED <<data, file, uuids, session, session_state>>

\* A call that only reads self.data
Read(c, r) ==
    /\ call' = c
    /\ ret' = r
    /\ pre' = data
    /\ pre_file' = file
    /\ UNCHANGED <<data, file, backups, now, uuids, session, session_state>>

GetTopDoctors ==
    \E limit \in Limits :
        Read([op |-> "get_top_doctors_certificates", args |-> <<limit>>],
             Returned(get_top_doctors_certificates(data, limit)))

GetTopEmployees ==
    \E limit \in Limits :
        Read([op |-> "get_top_employees_certificates", args |-> <<limit>>],
             Returned(get_top_employees_certificates(data, limit)))

GetStatistics ==
    Read([op |-> "get_statistics", args |-> <<>>], get_statistics(data))

Next ==
    \/ AddDoctor
    \/ UpdateDoctor
    \/ DeleteDoctor
    \/ AddEmployee
    \/ AddEmployeeRole
    \/ AddCertificate
    \/ CreateBackup
    \/ GetTopDoctors
    \/ GetTopEmployees
    \/ GetStatistics

Spec == Init /\ [][Next]_vars

-----------------------------------------------------------------------------
(* The user interface.  Streamlit runs main() from the top on every          *)
(* interaction: it constructs the store, which loads the data file, and then *)
(* runs the page the user is on.                                             *)

StoreUnchanged ==
    UNCHANGED <<data, file, backups, now, uuids, call, ret, pre, pre_file, session_state>>

\* main() when check_password() returns True:
\* storage = MedicalStorage() loads the data file
Rerun ==
    /\ session.page \in {"gate", "loaded", "done"}
    /\ check_password(session_state)
    /\ Call([op |-> "__init__", args |-> <<>>],
            load_data(data, file, now + 1), MaxSessionClock)
    /\ session' = Page(session, IF ret'.status = "returned" THEN "loaded" ELSE "done")

\* main() when check_password() returns False: the gate is shown, main returns
ShowGate ==
    /\ session.page \in {"gate", "loaded", "done"}
    /\ ~check_password(session_state)
    /\ call' = [op |-> "check_password", args |-> <<>>]
    /\ ret' = Returned(FALSE)
    /\ pre' = data
    /\ pre_file' = file
    /\ session' = Session("gate")
    /\ UNCHANGED <<data, file, backups, now, uuids, session_state>>

\* the user types a password at the gate: the field stores it under the key
\* "password" and its on_change callback password_entered runs
EnterPassword ==
    /\ session.page = "gate"
    /\ \E p \in Passwords :
          /\ session_state' = password_entered([session_state EXCEPT !.password = p])
          /\ call' = [op |-> "password_entered", args |-> <<p>>]
    /\ ret' = Returned(<<>>)
    /\ pre' = data
    /\ pre_file' = file
    /\ UNCHANGED <<data, file, backups, now, uuids, session>>

\* show_doctor_registration: the form is submitted with crm and name filled
SubmitDoctorForm ==
    /\ session.page = "loaded"
    /\ \E crm \in CRMs, name \in DoctorNames, specialty \in Texts,
          phone \in Texts, email \in Texts :
           Call([op |-> "add_doctor", args |-> <<crm, name, specialty, phone, email>>],
                add_doctor(data, crm, name, specialty, phone, email, uuids + 1, now + 1),
                MaxSessionClock)
    /\ session' = Session("done")

\* show_employee_registration: the form is submitted
SubmitEmployeeForm ==
    /\ session.page = "loaded"
    /\ \E registration \in Registrations, name \in EmployeeNames, department \in Texts :
           Call([op |-> "add_employee", args |-> <<registration, name, department>>],
                add_employee(data, registration, name, department, uuids + 1, now + 1),
                MaxSessionClock)
    /\ session' = Session("done")

\* show_doctor_edit_delete: the edit form is submitted for the selected doctor
SubmitEditForm ==
    /\ session.page = "loaded"
    /\ \E doctor_id \in Keys(data.doctors), name \in NameEdits, specialty \in Edits,
          phone \in Edits, email \in Edits :
           LET kwargs == [name |-> name, specialty |-> specialty,
                          phone |-> phone, email |-> email]
           IN  Call([op |-> "update_doctor", args |-> <<doctor_id, kwargs>>],
                    update_doctor(data, doctor_id, kwargs), MaxSessionClock)
    /\ session' = Session("done")

\* show_doctor_edit_delete: the delete button is pressed for the selected doctor
PressDelete ==
    /\ session.page = "loaded"
    /\ \E doctor_id \in Keys(data.doctors) :
           Call([op |-> "delete_doctor", args |-> <<doctor_id>>],
                delete_doctor(data, doctor_id), MaxSessionClock)
    /\ session' = Session("done")

\* show_attendance_registration: the form is there when doctors and employees
\* are stored, and its two select boxes offer the stored ones
SubmitAttendanceForm ==
    /\ session.page = "loaded"
    /\ data.doctors # <<>>
    /\ data.employees # <<>>
    /\ \E doctor_id \in Keys(data.doctors), employee_id \in Keys(data.employees),
          certificate_date \in Dates, days_off \in DaysOff, diagnosis \in Diagnoses :
           Call([op |-> "add_certificate",
                 args |-> <<doctor_id, employee_id, certificate_date, days_off, diagnosis>>],
                add_certificate(data, doctor_id, employee_id, certificate_date,
                                days_off, diagnosis, uuids + 1, now + 1),
                MaxSessionClock)
    /\ session' = Session("done")

\* show_complete_report_import: a sheet is uploaded and the caches are filled
\* from the store
Upload(sheet, report) ==
    [Session("import") EXCEPT
        !.rows = sheet,
        !.pc = "employee",
        !.funcionarios_cache = load_funcionarios(data.employees, <<>>),
        !.medicos_cache = load_medicos(data.doctors, <<>>),
        !.before = Len(data.certificates),
        !.total = Len(sheet),
        !.report = report]

StartImport ==
    /\ session.page = "loaded"
    /\ session.report.imports = 0
    /\ \E sheet \in Sheets : session' = Upload(sheet, NoReport)
    /\ StoreUnchanged

\* a report is uploaded that the user keeps, to import it again
UploadReport ==
    /\ session.page = "loaded"
    /\ session.report.imports = 0
    /\ \E sheet \in Reports :
          session' = Upload(sheet, [NoReport EXCEPT !.sheet = sheet, !.imports = 1])
    /\ StoreUnchanged

\* the same report is imported a second time, in a later run of the script
UploadAgain ==
    /\ session.page = "loaded"
    /\ session.report.imports = 1
    /\ session' = Upload(session.report.sheet, [session.report EXCEPT !.imports = 2])
    /\ StoreUnchanged

\* the loop goes on to the next row: at the end of a row, and when a call of
\* the row raised (except Exception: stats['erros'] += 1)
NextRow(s) == [s EXCEPT !.rows = Tail(@), !.pc = "employee"]
RowRaised(s) == [NextRow(s) EXCEPT !.stats.erros = @ + 1]

\* the registration of the row, if it is numeric, is the most recent one
Seen(s, row) ==
    IF row.matricula # "" /\ isdigit(row.matricula)
    THEN [s EXCEPT !.last_valid = row.matricula]
    ELSE s

\* a row with a registration number names an employee: the one in the cache,
\* or a new one
ImportEmployee ==
    /\ session.page = "import"
    /\ session.rows # <<>>
    /\ session.pc = "employee"
    /\ LET row == Head(session.rows)
           seen == Seen(session, row)
       IN  IF ~(row.matricula # "" /\ isdigit(row.matricula) /\ Len(row.nome_func) > 3)
           THEN /\ session' = [seen EXCEPT !.pc = "doctor"]
                /\ StoreUnchanged
           ELSE IF Has(session.funcionarios_cache, row.matricula)
           THEN /\ session' = [seen EXCEPT
                                 !.current_employee_id =
                                     Get(session.funcionarios_cache, row.matricula),
                                 !.stats.funcionarios_duplicados = @ + 1,
                                 !.pc = "doctor"]
                /\ StoreUnchanged
           ELSE /\ Call([op |-> "add_employee",
                         args |-> <<row.matricula, row.nome_func, "">>],
                        add_employee(data, row.matricula, row.nome_func, "",
                                     uuids + 1, now + 1),
                        MaxSessionClock)
                /\ session' =
                      IF ret'.status = "returned"
                      THEN [seen EXCEPT
                              !.current_employee_id = ret'.value,
                              !.funcionarios_cache = Put(@, row.matricula, ret'.value),
                              !.stats.funcionarios_novos = @ + 1,
                              !.pc = "doctor"]
                      ELSE RowRaised(seen)

\* a row with a doctor's text names a doctor: the one in the cache, or a new
\* one
ImportDoctor ==
    /\ session.page = "import"
    /\ session.rows # <<>>
    /\ session.pc = "doctor"
    /\ LET row == Head(session.rows)
           crm_upper == Upper(row.medico)
       IN  IF row.medico = ""
           THEN /\ session' = NextRow(session)
                /\ StoreUnchanged
           ELSE IF Has(session.medicos_cache, crm_upper)
           THEN /\ session' = [session EXCEPT
                                 !.doctor_id = Get(session.medicos_cache, crm_upper),
                                 !.stats.medicos_duplicados = @ + 1,
                                 !.pc = "certificate"]
                /\ StoreUnchanged
           ELSE /\ \E name \in DoctorNames :
                      Call([op |-> "add_doctor", args |-> <<row.medico, name, "", "", "">>],
                           add_doctor(data, row.medico, name, "", "", "",
                                      uuids + 1, now + 1),
                           MaxSessionClock)
                /\ session' =
                      IF ret'.status = "returned"
                      THEN [session EXCEPT
                              !.doctor_id = ret'.value,
                              !.medicos_cache = Put(@, crm_upper, ret'.value),
                              !.stats.medicos_novos = @ + 1,
                              !.pc = "certificate"]
                      ELSE RowRaised(session)

\* the certificate of the row, if there is a current employee
ImportCertificate ==
    /\ session.page = "import"
    /\ session.rows # <<>>
    /\ session.pc = "certificate"
    /\ IF session.current_employee_id = 0
       THEN /\ session' = NextRow(session)
            /\ StoreUnchanged
       ELSE /\ Call([op |-> "add_certificate",
                     args |-> <<session.doctor_id, session.current_employee_id,
                                Today, 1, "">>],
                    import_certificate(data, session.doctor_id,
                                       session.current_employee_id, uuids + 1, now + 1),
                    MaxSessionClock)
            /\ session' =
                  IF ret'.status = "returned"
                  THEN [NextRow(session) EXCEPT !.stats.atendimentos_registrados = @ + 1]
                  ELSE RowRaised(session)

\* the loop has run through the sheet
EndImport ==
    /\ session.page = "import"
    /\ session.rows = <<>>
    /\ session' =
          IF session.report.imports = 1
          THEN [Session("done") EXCEPT
                  !.report = [session.report EXCEPT
                                !.doctors = Parties(data.doctors, "crm"),
                                !.employees = Parties(data.employees, "registration")]]
          ELSE Page(session, "done")
    /\ StoreUnchanged

NextUI ==
    \/ Rerun
    \/ SubmitDoctorForm
    \/ SubmitEmployeeForm
    \/ SubmitEditForm
    \/ PressDelete
    \/ SubmitAttendanceForm
    \/ StartImport
    \/ ImportEmployee
    \/ ImportDoctor
    \/ ImportCertificate
    \/ EndImport

SpecUI == Init /\ [][NextUI]_vars

-----------------------------------------------------------------------------
(* The complete-report import of one report, twice, with the runs of the   *)
(* script in between.                                                      *)

\* import_employees: IMPORTAR DADOS is pressed on an uploaded sheet
StartBulkEmployees ==
    /\ session.page = "loaded"
    /\ \E sheet \in EmployeeSheets :
          session' = [Session("bulk") EXCEPT
                        !.rows = sheet, !.pc = "employee",
                        !.before = Len(data.employees), !.total = Len(sheet)]
    /\ StoreUnchanged

\* import_doctors: the same for doctors
StartBulkDoctors ==
    /\ session.page = "loaded"
    /\ \E sheet \in DoctorSheets :
          session' = [Session("bulk") EXCEPT
                        !.rows = sheet, !.pc = "doctor",
                        !.before = Len(data.doctors), !.total = Len(sheet)]
    /\ StoreUnchanged

\* one turn of the loop of import_employees: duplicated counts a stored
\* registration, then the row is added, or counted an error when a cell is
\* empty or when add_employee raised
BulkEmployeeRow ==
    /\ session.page = "bulk"
    /\ session.pc = "employee"
    /\ session.rows # <<>>
    /\ LET row == Head(session.rows)
           exists == \E i \in DOMAIN data.employees :
                        data.employees[i].v.registration = row.matricula
           checked == [session EXCEPT
                         !.rows = Tail(@),
                         !.duplicated = IF exists THEN @ + 1 ELSE @]
       IN  IF ~exists /\ row.matricula # "" /\ row.nome # ""
           THEN /\ Call([op |-> "add_employee", args |-> <<row.matricula, row.nome, "">>],
                        add_employee(data, row.matricula, row.nome, "",
                                     uuids + 1, now + 1),
                        MaxSessionClock)
                /\ session' = IF ret'.status = "returned"
                              THEN [checked EXCEPT !.imported = @ + 1]
                              ELSE [checked EXCEPT !.errors = @ + 1]
           ELSE /\ session' = IF row.matricula = "" \/ row.nome = ""
                              THEN [checked EXCEPT !.errors = @ + 1]
                              ELSE checked
                /\ StoreUnchanged

\* one turn of the loop of import_doctors
BulkDoctorRow ==
    /\ session.page = "bulk"
    /\ session.pc = "doctor"
    /\ session.rows # <<>>
    /\ LET row == Head(session.rows)
           exists == \E i \in DOMAIN data.doctors :
                        Lower(data.doctors[i].v.crm) = Lower(row.crm)
           checked == [session EXCEPT
                         !.rows = Tail(@),
                         !.duplicated = IF exists THEN @ + 1 ELSE @]
       IN  IF ~exists /\ row.crm # "" /\ row.nome # ""
           THEN /\ Call([op |-> "add_doctor", args |-> <<row.crm, row.nome, "", "", "">>],
                        add_doctor(data, row.crm, row.nome, "", "", "",
                                   uuids + 1, now + 1),
                        MaxSessionClock)
                /\ session' = IF ret'.status = "returned"
                              THEN [checked EXCEPT !.imported = @ + 1]
                              ELSE [checked EXCEPT !.errors = @ + 1]
           ELSE /\ session' = IF row.crm = "" \/ row.nome = ""
                              THEN [checked EXCEPT !.errors = @ + 1]
                              ELSE checked
                /\ StoreUnchanged

\* the loop has run through the sheet and the three counters are shown
EndBulk ==
    /\ session.page = "bulk"
    /\ session.rows = <<>>
    /\ session' = Page(session, "done")
    /\ StoreUnchanged

NextBulk ==
    \/ Rerun
    \/ StartBulkEmployees
    \/ StartBulkDoctors
    \/ BulkEmployeeRow
    \/ BulkDoctorRow
    \/ EndBulk

SpecBulk == Init /\ [][NextBulk]_vars

NextImport ==
    \/ Rerun
    \/ UploadReport
    \/ UploadAgain
    \/ ImportEmployee
    \/ ImportDoctor
    \/ ImportCertificate
    \/ EndImport

SpecImport == Init /\ [][NextImport]_vars

-----------------------------------------------------------------------------
(* A browser session from its first run: nothing is in the session state,  *)
(* the data file is missing, truncated, not text, or holds an empty store. *)

Files == {Missing, Corrupt, Undecodable, Stored(EmptyData(0))}

InitSession ==
    /\ data = EmptyData(0)
    /\ file \in Files
    /\ backups = <<>>
    /\ now = 0
    /\ uuids = 0
    /\ call = [op |-> "check_password", args |-> <<>>]
    /\ ret = Returned(FALSE)
    /\ pre = EmptyData(0)
    /\ pre_file = file
    /\ session = Session("gate")
    /\ session_state = [password_correct |-> Absent, password |-> Absent]

NextSession ==
    \/ ShowGate
    \/ EnterPassword
    \/ Rerun
    \/ SubmitDoctorForm
    \/ SubmitEmployeeForm
    \/ SubmitEditForm
    \/ PressDelete
    \/ SubmitAttendanceForm

SpecSession == InitSession /\ [][NextSession]_vars

-----------------------------------------------------------------------------
(* The classifier on its own: a raw code and a table are drawn, then        *)
(* normalize and classify are applied; the store stays as constructed.      *)

InitClassifier ==
    /\ data = EmptyData(0)
    /\ file = Stored(EmptyData(0))
    /\ backups = <<>>
    /\ now = 0
    /\ uuids = 0
    /\ \E raw \in RawCodes, table \in Tables :
          call = [op |-> "input", args |-> <<raw, table>>]
    /\ ret = Returned(<<>>)
    /\ pre = EmptyData(0)
    /\ pre_file = Stored(EmptyData(0))
    /\ session = Session("loaded")
    /\ session_state = LoggedIn

\* normalize(raw), of the code drawn or of a code normalize returned
Normalize ==
    /\ call.op \in {"input", "normalize"}
    /\ LET raw == IF call.op = "input" THEN call.args[1] ELSE ret.value
       IN  /\ call' = [op |-> "normalize", args |-> <<raw>>]
           /\ ret' = Returned(normalize(raw))
    /\ UNCHANGED <<data, file, backups, now, uuids, pre, pre_file, session, session_state>>

\* classify(code) with the table drawn
Classify ==
    /\ call.op = "input"
    /\ call' = [op |-> "classify", args |-> call.args]
    /\ ret' = Returned(classify(call.args[1], call.args[2]))
    /\ UNCHANGED <<data, file, backups, now, uuids, pre, pre_file, session, session_state>>

NextClassifier ==
    \/ Normalize
    \/ Classify

SpecClassifier == InitClassifier /\ [][NextClassifier]_vars

-----------------------------------------------------------------------------
(* Properties.  call, ret, pre and pre_file record the last call, so a     *)
(* statement about what a call does is a statement about every state.      *)

Called(op) == call.op = op

ReturnedNormally == ret.status = "returned"

\* the number of stored certificates whose field names the identifier
Certificates(d, field, id) ==
    Cardinality({i \in DOMAIN d.certificates : d.certificates[i].v[field] = id})

SameCollections(a, b) ==
    /\ a.doctors = b.doctors
    /\ a.employees = b.employees
    /\ a.certificates = b.certificates

\* the call left the three collections and the data file as they were
NothingChanged == SameCollections(data, pre) /\ SameFile(file, pre_file)

\* C1: every stored doctor's and every stored employee's total_certificates
\* is the number of stored certificates that name it.
C1_CountersMatchCertificates ==
    /\ \A i \in DOMAIN data.doctors :
          data.doctors[i].v.total_certificates =
              Certificates(data, "doctor_id", data.doctors[i].k)
    /\ \A i \in DOMAIN data.employees :
          data.employees[i].v.total_certificates =
              Certificates(data, "employee_id", data.employees[i].k)

\* a doctor is stored with two certificates, the second just added
C1_Witness ==
    /\ Called("add_certificate")
    /\ Has(data.doctors, call.args[1])
    /\ Get(data.doctors, call.args[1]).total_certificates = 2
    /\ Certificates(data, "doctor_id", call.args[1]) = 2

\* C2: add_certificate naming a doctor or an employee that is not stored
\* raises ReferenceError, stores no certificate and changes no counter.
C2_MissingReferenceRejected ==
    (/\ Called("add_certificate")
     /\ \/ ~Has(pre.doctors, call.args[1])
        \/ ~Has(pre.employees, call.args[2]))
    => /\ ret.status = "raised"
       /\ ret.value = "ReferenceError"
       /\ SameCollections(data, pre)

\* the add_certificate call named a doctor and an employee that were stored
BothStored == Has(pre.doctors, call.args[1]) /\ Has(pre.employees, call.args[2])

\* the stored doctors whose crm is the given one, ignoring case
SameCrm(d, crm) == {i \in DOMAIN d.doctors : Lower(d.doctors[i].v.crm) = Lower(crm)}

\* the stored employees with exactly the given registration
SameRegistration(d, registration) ==
    {i \in DOMAIN d.employees : d.employees[i].v.registration = registration}

\* C3: no two stored doctors have the same crm ignoring case; add_doctor with
\* the crm of a stored doctor, ignoring case, returns that doctor's identifier
\* and leaves the doctors as they were; otherwise it adds exactly one doctor,
\* with both counters 0 and no last attendance.
C3_CrmUniqueIgnoringCase ==
    /\ \A i, j \in DOMAIN data.doctors :
          Lower(data.doctors[i].v.crm) = Lower(data.doctors[j].v.crm) => i = j
    /\ Called("add_doctor") =>
          LET hits == SameCrm(pre, call.args[1])
          IN  IF hits # {}
              THEN /\ ReturnedNormally
                   /\ \E i \in hits : ret.value = pre.doctors[i].k
                   /\ data.doctors = pre.doctors
              ELSE /\ Len(data.doctors) = Len(pre.doctors) + 1
                   /\ SubSeq(data.doctors, 1, Len(pre.doctors)) = pre.doctors
                   /\ LET new == data.doctors[Len(data.doctors)]
                      IN  /\ ~Has(pre.doctors, new.k)
                          /\ new.v.crm = call.args[1]
                          /\ new.v.total_certificates = 0
                          /\ new.v.total_attendances = 0
                          /\ new.v.last_attendance = None
                          /\ ReturnedNormally => ret.value = new.k

\* add_doctor was called with the crm of a stored doctor in another case
C3_Witness ==
    /\ Called("add_doctor")
    /\ \E i \in SameCrm(pre, call.args[1]) :
          /\ pre.doctors[i].v.crm # call.args[1]
          /\ ret.value = pre.doctors[i].k
    /\ Len(data.doctors) = 2

\* the call add_employee(registration, name, department)
CalledAddEmployee == Called("add_employee") /\ Len(call.args) = 3

\* C4: no two stored employees have the same registration; add_employee with
\* the registration of a stored employee returns that employee's identifier and
\* adds no record; otherwise, also when the registration differs from a stored
\* one in case only, it adds exactly one employee with both counters 0.
C4_RegistrationUniqueExactly ==
    /\ \A i, j \in DOMAIN data.employees :
          data.employees[i].v.registration = data.employees[j].v.registration => i = j
    /\ CalledAddEmployee =>
          LET hits == SameRegistration(pre, call.args[1])
          IN  IF hits # {}
              THEN /\ ReturnedNormally
                   /\ \E i \in hits : ret.value = pre.employees[i].k
                   /\ data.employees = pre.employees
              ELSE /\ Len(data.employees) = Len(pre.employees) + 1
                   /\ SubSeq(data.employees, 1, Len(pre.employees)) = pre.employees
                   /\ LET new == data.employees[Len(data.employees)]
                      IN  /\ ~Has(pre.employees, new.k)
                          /\ new.v.registration = call.args[1]
                          /\ new.v.total_certificates = 0
                          /\ new.v.total_attendances = 0
                          /\ ReturnedNormally => ret.value = new.k

\* two employees are stored whose registrations differ in case only, and a
\* later add_employee with one of them returned the stored identifier
C4_Witness ==
    /\ CalledAddEmployee
    /\ SameRegistration(pre, call.args[1]) # {}
    /\ \E i, j \in DOMAIN data.employees :
          /\ i # j
          /\ Lower(data.employees[i].v.registration) =
                 Lower(data.employees[j].v.registration)

\* C5: add_employee called with a role and the registration of a stored
\* employee whose role is unset stores the role on that employee and adds no
\* record.
C5_RoleBackfilled ==
    (/\ Called("add_employee")
     /\ Len(call.args) = 4
     /\ \E i \in SameRegistration(pre, call.args[1]) :
           "role" \notin DOMAIN pre.employees[i].v)
    => /\ Len(data.employees) = Len(pre.employees)
       /\ \A i \in SameRegistration(data, call.args[1]) :
             /\ "role" \in DOMAIN data.employees[i].v
             /\ data.employees[i].v.role = call.args[4]

\* C6: delete_doctor on a doctor that a stored certificate names is refused
\* and leaves the collections and the data file as they were; a delete that
\* succeeds removes a doctor that no stored certificate names.
C6_ReferencedDoctorNotDeleted ==
    Called("delete_doctor") =>
        /\ Certificates(pre, "doctor_id", call.args[1]) > 0 =>
              /\ ReturnedNormally
              /\ ret.value[1] = FALSE
              /\ NothingChanged
        /\ \A id \in Keys(pre.doctors) \ Keys(data.doctors) :
              /\ id = call.args[1]
              /\ Certificates(data, "doctor_id", id) = 0

\* delete_doctor was refused for a stored doctor with a certificate
C6_Witness ==
    /\ Called("delete_doctor")
    /\ Has(pre.doctors, call.args[1])
    /\ Certificates(pre, "doctor_id", call.args[1]) > 0
    /\ ret.value[1] = FALSE
    /\ Has(data.doctors, call.args[1])

C8_CertificatesAppendOnly ==
    /\ Len(pre.certificates) <= Len(data.certificates)
    /\ SubSeq(data.certificates, 1, Len(pre.certificates)) = pre.certificates
    /\ Len(pre.employees) <= Len(data.employees)
    /\ \A i \in DOMAIN pre.employees : data.employees[i].k = pre.employees[i].k

\* a doctor was deleted while a certificate is stored
C8_Witness ==
    /\ Called("delete_doctor") /\ ReturnedNormally /\ ret.value[1] = TRUE
    /\ Len(pre.certificates) > 0
    /\ Len(data.certificates) > 0

StoreOperations ==
    {"add_doctor", "add_employee", "add_certificate", "update_doctor", "delete_doctor"}

\* C9: after every store operation that returns normally, the data file holds
\* the doctors, employees and certificates that are in memory.
C9_FileEqualsMemory ==
    (call.op \in StoreOperations /\ ReturnedNormally) =>
        file.valid /\ SameCollections(json_load(file.json), data)

\* C10: when the write of the data file fails during a store operation, the
\* caller gets the failure, memory holds what the file holds, and a data file
\* that was valid is still valid.
C10_FailedWriteLeavesStoreConsistent ==
    (call.op \in StoreOperations /\ ret.status = "raised" /\ ret.value = "OSError") =>
        /\ pre_file.valid => file.valid
        /\ file.valid => SameCollections(json_load(file.json), data)

\* the smaller of two numbers
Min(a, b) == IF a < b THEN a ELSE b

\* the place of entry i of a dictionary in the order of the top lists: behind
\* the entries with more certificates and the earlier entries with as many
Place(dict, i) ==
    1 + Cardinality({j \in DOMAIN dict :
            \/ dict[j].v.total_certificates > dict[i].v.total_certificates
            \/ /\ dict[j].v.total_certificates = dict[i].v.total_certificates
               /\ j < i})

\* C11: get_top_doctors_certificates(limit) returns the first min(limit,
\* number of doctors) doctors in the order of falling total_certificates,
\* doctors with equal counts in insertion order, and changes nothing.
C11_TopDoctorsOrdered ==
    Called("get_top_doctors_certificates") =>
        /\ ReturnedNormally
        /\ Len(ret.value) = Min(call.args[1], Len(data.doctors))
        /\ \A i \in DOMAIN data.doctors :
              Place(data.doctors, i) <= Len(ret.value) =>
                  ret.value[Place(data.doctors, i)] = DoctorRow(data.doctors[i])
        /\ data = pre
        /\ NothingChanged

\* two doctors are stored and the top list holds both; either the later one
\* has more certificates and comes first, or they tie
C11_Witness ==
    /\ Called("get_top_doctors_certificates")
    /\ Len(data.doctors) = 2
    /\ Len(ret.value) = 2
    /\ data.doctors[2].v.total_certificates > data.doctors[1].v.total_certificates
    /\ ret.value[1].doctor_id = data.doctors[2].k

\* C12: get_top_employees_certificates(limit) returns the first min(limit,
\* number of employees) employees in the order of falling total_certificates,
\* employees with equal counts in insertion order, and changes nothing.
C12_TopEmployeesOrdered ==
    Called("get_top_employees_certificates") =>
        /\ ReturnedNormally
        /\ Len(ret.value) = Min(call.args[1], Len(data.employees))
        /\ \A i \in DOMAIN data.employees :
              Place(data.employees, i) <= Len(ret.value) =>
                  ret.value[Place(data.employees, i)] = EmployeeRow(data.employees[i])
        /\ data = pre
        /\ NothingChanged

\* two employees are stored, the later one with more certificates, and the top
\* list is cut to that one
C12_Witness ==
    /\ Called("get_top_employees_certificates")
    /\ call.args[1] = 1
    /\ Len(data.employees) = 2
    /\ data.employees[2].v.total_certificates > data.employees[1].v.total_certificates
    /\ ret.value = <<EmployeeRow(data.employees[2])>>

\* C13: get_statistics raises nothing; it returns the sizes of the three
\* collections, certificates_per_doctor is 0 when no doctor is stored and
\* certificates_per_employee is 0 when no employee is stored.
C13_StatisticsTotal ==
    Called("get_statistics") =>
        /\ ReturnedNormally
        /\ ret.value.total_doctors = Len(data.doctors)
        /\ ret.value.total_employees = Len(data.employees)
        /\ ret.value.total_certificates = Len(data.certificates)
        /\ Len(data.doctors) = 0 => ret.value.certificates_per_doctor = Zero
        /\ Len(data.employees) = 0 => ret.value.certificates_per_employee = Zero
        /\ Len(data.doctors) > 0 =>
              ret.value.certificates_per_doctor =
                  Quotient(Len(data.certificates), Len(data.doctors))
        /\ Len(data.employees) > 0 =>
              ret.value.certificates_per_employee =
                  Quotient(Len(data.certificates), Len(data.employees))
        /\ (Len(data.doctors) = 0 /\ Len(data.employees) = 0
                /\ Len(data.certificates) = 0) =>
              ret.value.total_attendances = 0

\* get_statistics was called with a certificate stored but no doctor
C13_Witness ==
    /\ Called("get_statistics")
    /\ Len(data.certificates) > 0
    /\ Len(data.doctors) = 0
    /\ ret.value.certificates_per_doctor = Zero

\* C14: the certificate add_certificate stores carries the risk
\* classification of its diagnosis code (flag and description).
C14_CertificateClassified ==
    (Called("add_certificate") /\ ReturnedNormally) =>
        LET cert == Get(data.certificates, ret.value)
        IN  /\ "isPsychosocialRisk" \in DOMAIN cert
            /\ "riskDetail" \in DOMAIN cert

\* p is a string prefix of s
IsPrefix(p, s) == Len(p) <= Len(s) /\ \A i \in 1..Len(p) : s[i] = p[i]

\* the entries of the table whose code without dots is a prefix of the code
\* without dots
Matches(code, table) ==
    {i \in DOMAIN table :
        IsPrefix(remove_dots(table[i].code), remove_dots(code))}

\* C15: classify returns no risk for the empty code and for a code no table
\* entry is a prefix of; otherwise it returns the description of the first
\* entry of the table whose code, dots removed, is a prefix of the code, dots
\* removed.  It returns for every code.
C15_FirstPrefixWins ==
    Called("classify") =>
        LET code == call.args[1]
            table == call.args[2]
            M == Matches(code, table)
        IN  /\ ReturnedNormally
            /\ (code = <<>> \/ M = {}) => ret.value = NoRisk
            /\ (code # <<>> /\ M # {}) =>
                  /\ ret.value.risk
                  /\ \E i \in M :
                        /\ \A j \in M : i <= j
                        /\ ret.value.description = table[i].description

\* the category stands before the code below it, both match, and the
\* category is returned
C15_Witness ==
    /\ Called("classify")
    /\ Len(call.args[2]) = 2
    /\ call.args[2][1].description = "category"
    /\ call.args[2][2].description = "subcategory"
    /\ Matches(call.args[1], call.args[2]) = {1, 2}
    /\ ret.value = [risk |-> TRUE, description |-> "category"]

\* a code has blanks around it
Surrounded(s) == s # <<>> /\ (IsSpace(s[1]) \/ IsSpace(s[Len(s)]))

\* what normalize returns for every code: no lower-case letter, and either at
\* most three characters without a dot, or three characters, a dot, and at
\* least one more without a dot
Shaped(s) ==
    /\ \A i \in DOMAIN s : s[i] # "f"
    /\ Len(s) # 4
    /\ \A i \in DOMAIN s : s[i] = "." <=> i = 4

\* a canonical code is shaped and has no blanks around it
IsCanonical(s) == Shaped(s) /\ ~Surrounded(s)

\* C16 as stated: normalize returns the empty code for the empty code,
\* returns a shaped code, and normalize(normalize(c)) = normalize(c) for every
\* code c.
C16_NormalizeIdempotent ==
    Called("normalize") =>
        /\ call.args[1] = <<>> => ret.value = <<>>
        /\ Shaped(ret.value)
        /\ normalize(ret.value) = ret.value

\* C16 amended: normalize returns the empty code for the empty code, returns
\* a shaped code, returns a canonical code unchanged, and
\* normalize(normalize(c)) = normalize(c) whenever normalize(c) has no blank
\* around it.
C16_NormalizeCanonical ==
    Called("normalize") =>
        /\ call.args[1] = <<>> => ret.value = <<>>
        /\ Shaped(ret.value)
        /\ IsCanonical(call.args[1]) => ret.value = call.args[1]
        /\ ~Surrounded(ret.value) => normalize(ret.value) = ret.value

\* a canonical code with a dot went through normalize and came back as it was
C16_Witness ==
    /\ Called("normalize")
    /\ Len(call.args[1]) = 5
    /\ IsCanonical(call.args[1])
    /\ ret.value = call.args[1]

\* C17: update_doctor and delete_doctor with an identifier that is no key of
\* doctors return False and (False, message); the store in memory, with its
\* last_update, and the data file are as they were.
C17_UnknownDoctorNoEffect ==
    ((Called("update_doctor") \/ Called("delete_doctor"))
            /\ ~Has(pre.doctors, call.args[1])) =>
        /\ ReturnedNormally
        /\ Called("update_doctor") => ret.value = FALSE
        /\ Called("delete_doctor") => ret.value[1] = FALSE
        /\ data = pre
        /\ file = pre_file

\* update_doctor was called for an unknown doctor while a doctor is stored
\* and the file is older than the store in memory
C17_Witness ==
    /\ Called("update_doctor")
    /\ ~Has(pre.doctors, call.args[1])
    /\ call.args[2].name # ""
    /\ Len(data.doctors) > 0
    /\ file.valid
    /\ file.json.last_update < data.last_update

\* the certificate the last add_certificate stored
NewCertificate == data.certificates[Len(data.certificates)]

\* the doctor or employee was counted once more
Counted(old, new) ==
    /\ new.total_certificates = old.total_certificates + 1
    /\ new.total_attendances = old.total_attendances + 1

\* C18: add_certificate with a doctor_id or an employee_id that is no key of
\* its collection stores the certificate with the identifiers as given, leaves
\* the collection of the missing party as it was, counts the certificate for
\* the party that is stored, and returns the identifier of the new certificate.
C18_DanglingCertificateStored ==
    (Called("add_certificate") /\ ~BothStored) =>
        /\ Len(data.certificates) = Len(pre.certificates) + 1
        /\ SubSeq(data.certificates, 1, Len(pre.certificates)) = pre.certificates
        /\ ~Has(pre.certificates, NewCertificate.k)
        /\ NewCertificate.v.doctor_id = call.args[1]
        /\ NewCertificate.v.employee_id = call.args[2]
        /\ ReturnedNormally => ret.value = NewCertificate.k
        /\ IF Has(pre.doctors, call.args[1])
           THEN /\ Keys(data.doctors) = Keys(pre.doctors)
                /\ Counted(Get(pre.doctors, call.args[1]),
                           Get(data.doctors, call.args[1]))
           ELSE data.doctors = pre.doctors
        /\ IF Has(pre.employees, call.args[2])
           THEN /\ Keys(data.employees) = Keys(pre.employees)
                /\ Counted(Get(pre.employees, call.args[2]),
                           Get(data.employees, call.args[2]))
           ELSE data.employees = pre.employees

\* a certificate for a stored employee and an unknown doctor was stored and
\* returned, and the employee was counted
C18_Witness ==
    /\ Called("add_certificate")
    /\ ReturnedNormally
    /\ ~Has(pre.doctors, call.args[1])
    /\ Has(pre.employees, call.args[2])
    /\ Len(pre.doctors) > 0
    /\ NewCertificate.v.doctor_id = call.args[1]
    /\ Get(data.employees, call.args[2]).total_certificates = 1

ReferencesStored(d) ==
    \A i \in DOMAIN d.certificates :
        /\ Has(d.doctors, d.certificates[i].v.doctor_id)
        /\ Has(d.employees, d.certificates[i].v.employee_id)

\* C20: in a session of the user interface (the forms, the import of the
\* complete report, edits and deletions of doctors) every stored certificate's
\* doctor_id is a key of doctors and its employee_id is a key of employees,
\* in memory and in the data file.
C20_SessionReferencesStored ==
    /\ ReferencesStored(data)
    /\ file.valid => ReferencesStored(file.json)

\* the import stored a certificate, and afterwards the deletion of a doctor
\* removed one while a certificate is stored
C20_Witness ==
    /\ Called("delete_doctor")
    /\ ReturnedNormally
    /\ ret.value[1]
    /\ session.page = "done"
    /\ \E i \in DOMAIN data.certificates :
          data.certificates[i].v.certificate_date = Today

\* C27: update_doctor on a stored doctor sets exactly the keyword fields
\* given a non-empty value, leaves the doctor's other fields, the other
\* doctors and their order, the employees and the certificates as they were,
\* returns True and writes the store to the data file.
C27_UpdateDoctorFrame ==
    (Called("update_doctor") /\ Has(pre.doctors, call.args[1])) =>
        LET doctor_id == call.args[1]
            kwargs == call.args[2]
            old == Get(pre.doctors, doctor_id)
        IN  /\ Len(data.doctors) = Len(pre.doctors)
            /\ \A i \in DOMAIN pre.doctors :
                  /\ data.doctors[i].k = pre.doctors[i].k
                  /\ pre.doctors[i].k # doctor_id => data.doctors[i] = pre.doctors[i]
            /\ DOMAIN Get(data.doctors, doctor_id) = DOMAIN old
            /\ \A key \in DOMAIN old :
                  Get(data.doctors, doctor_id)[key] =
                      IF key \in DOMAIN kwargs /\ kwargs[key] # ""
                      THEN kwargs[key] ELSE old[key]
            /\ data.employees = pre.employees
            /\ data.certificates = pre.certificates
            /\ ReturnedNormally =>
                  /\ ret.value = TRUE
                  /\ file.valid
                  /\ SameCollections(json_load(file.json), data)

\* a doctor with a certificate was given a new name and an empty specialty
C27_Witness ==
    /\ Called("update_doctor")
    /\ ReturnedNormally
    /\ Has(pre.doctors, call.args[1])
    /\ call.args[2].name = "Bia"
    /\ call.args[2].specialty = ""
    /\ Get(pre.doctors, call.args[1]).name = "Ana"
    /\ Get(data.doctors, call.args[1]).name = "Bia"
    /\ Get(data.doctors, call.args[1]).total_certificates = 1

-----------------------------------------------------------------------------
\* C21: main constructs the store and reaches a page only in a session state
\* whose password_correct is True; password_correct becomes True only in
\* password_entered, when the sha256 of the entered password is the stored
\* hash; after a wrong entry password_correct is False and check_password
\* shows the gate again; after a correct entry the key "password" is gone.
GateState ==
    /\ session.page # "gate" => session_state.password_correct = "True"
    /\ call.op \notin {"check_password", "password_entered"} =>
          session_state.password_correct = "True"
    /\ Called("check_password") =>
          /\ ret.value = FALSE
          /\ session_state.password_correct # "True"
          /\ session.page = "gate"
    /\ Called("password_entered") =>
          IF sha256(call.args[1]) = correct_password_hash
          THEN /\ session_state.password_correct = "True"
               /\ session_state.password = Absent
               /\ check_password(session_state)
          ELSE /\ session_state.password_correct = "False"
               /\ ~check_password(session_state)
               /\ ENABLED ShowGate
               /\ ~ENABLED Rerun

GateOpens ==
    (session_state.password_correct # "True" /\ session_state'.password_correct = "True") =>
        /\ call'.op = "password_entered"
        /\ sha256(call'.args[1]) = correct_password_hash

-----------------------------------------------------------------------------
\* C22: constructing the store when the data file is missing or is not valid
\* JSON yields an empty store and writes that empty snapshot to the data
\* file, whatever the file held (the failure of that write set aside).
C22_InvalidFileReplaced ==
    (Called("__init__") /\ ~pre_file.valid /\ ~(ret.status = "raised" /\ ret.value = "OSError")) =>
        /\ ReturnedNormally
        /\ data.doctors = <<>>
        /\ data.employees = <<>>
        /\ data.certificates = <<>>
        /\ file = Stored(data)

\* the construction on a missing or truncated file, which does that
C22_Recovered ==
    /\ Called("__init__")
    /\ ~pre_file.valid
    /\ ReturnedNormally
    /\ file = Stored(data)

-----------------------------------------------------------------------------
\* the store a fresh MedicalStorage() holds when it is constructed now
Fresh == load_data(data, file, now + 1).data

\* the fresh store has the records of the writing one, in the same order
RoundTrip == SameCollections(Fresh, data)

\* the fresh store ranks doctors and employees as the writing one does
SameRankings ==
    \A limit \in Limits :
        /\ get_top_doctors_certificates(Fresh, limit)
              = get_top_doctors_certificates(data, limit)
        /\ get_top_employees_certificates(Fresh, limit)
              = get_top_employees_certificates(data, limit)

-----------------------------------------------------------------------------
\* the import is about to record the doctor of a row that has no numeric
\* registration of its own
ContinuationRow ==
    /\ session.page = "import"
    /\ session.pc = "certificate"
    /\ ~(Head(session.rows).matricula # "" /\ isdigit(Head(session.rows).matricula))

\* the step records one certificate, of the doctor of the row, for the
\* employee whose registration the most recent row with one had
RecordedForLastEmployee ==
    /\ Len(data'.certificates) = Len(data.certificates) + 1
    /\ LET certificate == data'.certificates[Len(data'.certificates)].v
       IN  /\ certificate.doctor_id = session.doctor_id
           /\ Has(data.employees, certificate.employee_id)
           /\ Get(data.employees, certificate.employee_id).registration
                 = session.last_valid

\* the certificates the import has added are as many as it reports
AttendancesCounted ==
    session.page = "import" =>
        Len(data.certificates) - session.before = session.stats.atendimentos_registrados

\* C24: a row with a doctor and no numeric registration becomes a
\* certificate of the employee of the most recent earlier row that had a
\* numeric registration, and no certificate when there was no such row; the
\* certificates added are as many as atendimentos_registrados says.
C24_ContinuationRows ==
    /\ [][ContinuationRow =>
             IF session.last_valid = ""
             THEN data'.certificates = data.certificates
             ELSE RecordedForLastEmployee]_vars
    /\ []AttendancesCounted

\* the parties of the store when the second import of the report has ended
\* are those it held when the first had ended
SecondImportEnded == session.page = "done" /\ session.report.imports = 2

\* C25: importing the same report a second time leaves the doctors and the
\* employees with the keys, crm and registration numbers they had after the
\* first import.
C25_SecondImportAddsNoParty ==
    SecondImportEnded =>
        /\ Parties(data.doctors, "crm") = session.report.doctors
        /\ Parties(data.employees, "registration") = session.report.employees

-----------------------------------------------------------------------------
\* the records the bulk import has added to the collection it fills
BulkAdded ==
    IF session.pc = "employee"
    THEN Len(data.employees) - session.before
    ELSE Len(data.doctors) - session.before

\* C26: in the employee and doctor bulk imports every processed row is in
\* exactly one of imported, duplicated and errors, so that their sum is the
\* number of rows processed, and imported is the number of records added.
C26_BulkRowsCountedOnce ==
    session.page = "bulk" =>
        /\ session.imported + session.duplicated + session.errors
              = session.total - Len(session.rows)
        /\ session.imported = BulkAdded

=============================================================================
